---------------------------- MODULE Spec2Model ----------------------------
(***************************************************************************)
(* Model of rpi-rf-queued-sender.py: a Flask front end (RequestHandler)    *)
(* that validates POST /send bodies and hands them to a ZeroMQ DEALER      *)
(* socket, and one worker process (dequeue_and_send) that receives the     *)
(* frames on a ROUTER socket and drives the RF devices through a Sender.   *)
(***************************************************************************)
EXTENDS Integers, Sequences, FiniteSets, TLC

(***************************************************************************)
(* Bounds of the model.                                                    *)
(***************************************************************************)
\* Request-handling threads of the Flask server that may run handle at once.
NThreads == 2
\* Requests the front end receives in one run.
MaxRequests == 3
\* Messages the DEALER socket queues before socket.send blocks (the
\* socket's send high-water mark, scaled down).
HWM == 2

Threads == 1..NThreads

(***************************************************************************)
(* Request bodies: request.data is a byte string, described here by its    *)
(* text encoding and by the JSON value it spells.                          *)
(***************************************************************************)
Absent == [t |-> "absent", v |-> 0]
IntVal(n) == [t |-> "integer", v |-> n]
StrVal == [t |-> "string", v |-> 0]

Obj(g, c) == [kind |-> "object", gpioPin |-> g, code |-> c]
Body(e, s) == [enc |-> e, json |-> s]

ValidBodies ==
    { Body("utf-8", Obj(IntVal(2), IntVal(0))),
      Body("utf-8", Obj(IntVal(2), IntVal(7))),
      Body("utf-8", Obj(IntVal(27), IntVal(0))),
      Body("utf-16", Obj(IntVal(2), IntVal(0))) }

InvalidBodies ==
    { Body("utf-8", Obj(IntVal(1), IntVal(5))),
      Body("utf-8", Obj(IntVal(28), IntVal(5))),
      Body("utf-8", Obj(IntVal(2), IntVal(-1))),
      Body("utf-8", Obj(Absent, IntVal(5))),
      Body("utf-8", Obj(IntVal(2), Absent)),
      Body("utf-8", Obj(StrVal, IntVal(5))),
      Body("utf-8", Obj(IntVal(2), StrVal)),
      Body("utf-8", [kind |-> "array", gpioPin |-> Absent, code |-> Absent]) }

Bodies == ValidBodies \cup InvalidBodies

\* What a thread that handles no request holds.
NoRequest == Body("none", Obj(Absent, Absent))

\* The GPIO pins the model's devices live on.
GPIOs == {2, 27}

(***************************************************************************)
(* RequestHandler.SCHEMA, as Draft202012Validator applies it.              *)
(***************************************************************************)
MinGpio == 2
MaxGpio == 27
MinCode == 0

GpioPinOK(p) == p.t = "absent" \/ (p.t = "integer" /\ p.v >= MinGpio /\ p.v <= MaxGpio)

CodeOKNoMinimum(p) == p.t = "absent" \/ p.t = "integer"
CodeOK(p) == p.t = "absent" \/ (p.t = "integer" /\ p.v >= MinCode)

Required(s) == s.gpioPin.t # "absent" /\ s.code.t # "absent"

Validates(s) ==
    /\ s.kind = "object"
    /\ GpioPinOK(s.gpioPin)
    /\ CodeOK(s.code)
    /\ Required(s)

\* request.get_json(): the JSON module detects the encoding of the bytes
\* (UTF-8, UTF-16, UTF-32) and parses the text.
GetJson(b) == b.json

(***************************************************************************)
(* The worker's decoding of a received frame: message.decode('UTF-8'),     *)
(* json.loads, content['gpioPin'], content['code'].                        *)
(* A frame is the routing identity the ROUTER socket prepends, a request   *)
(* body, or bytes damaged in the socket.                                   *)
(***************************************************************************)
Ok(g, c) == [err |-> "none", gpio |-> g, code |-> c]
Err(e) == [err |-> e, gpio |-> 0, code |-> 0]

Parse(m) ==
    IF m.kind = "garbled" THEN Err("JSONDecodeError")
    ELSE IF m.body.enc # "utf-8" THEN Err("UnicodeDecodeError")
    ELSE IF m.body.json.kind # "object" THEN Err("TypeError")
    ELSE IF m.body.json.gpioPin.t = "absent" \/ m.body.json.code.t = "absent"
         THEN Err("KeyError")
    ELSE Ok(m.body.json.gpioPin.v, m.body.json.code.v)

(***************************************************************************)
(* The except clauses of the worker loop: UnicodeDecodeError and every     *)
(* other Exception are caught; KeyboardInterrupt is a BaseException.       *)
(***************************************************************************)
CaughtOnlyUnicode(exc) == exc = "UnicodeDecodeError"
Caught(exc) == exc # "KeyboardInterrupt"

VARIABLES
    pc,         \* per thread: "idle", or "insend" (inside socket.send)
    cur,        \* per thread: request.data of the request it is handling
    status,     \* the status of the response handle returned last (0: none yet)
    raced,      \* per thread: another thread was inside socket.send with it
    nreq,       \* requests received so far
    channel,    \* messages on the way from the DEALER to the ROUTER socket
    idRead,     \* the identity frame of channel's head was already received
    wpc,        \* worker: "init", "recv", "tx" (inside tx_code), "stopped"
    inflight,   \* ids of the commands whose tx_code call is running
    rfdevices,  \* Sender.rfdevices: gpio -> "absent" | "uninit" | "enabled"
    created,    \* per gpio: successful rfdevice_factory calls
    cleanups,   \* per gpio: cleanup calls
    accepted,   \* the commands answered 200, in order; a command's id is its index
    sendlog,    \* ids for which Sender.send was called, in order
    txlog,      \* ids for which tx_code was called, in order
    lastTx,     \* the device and the code of the latest tx_code call
    stopCause   \* why the worker stopped

vars == <<pc, cur, status, raced, nreq, channel, idRead, wpc, inflight,
          rfdevices, created, cleanups, accepted, sendlog, txlog, lastTx,
          stopCause>>

intake == <<pc, cur, status, raced, nreq, accepted>>
pool == <<rfdevices, created, cleanups>>
worker == <<wpc, inflight, sendlog, txlog, lastTx, stopCause, idRead>>

Init ==
    /\ pc = [t \in Threads |-> "idle"]
    /\ cur = [t \in Threads |-> NoRequest]
    /\ status = 0
    /\ raced = [t \in Threads |-> FALSE]
    /\ nreq = 0
    /\ channel = <<>>
    /\ idRead = FALSE
    /\ wpc = "init"
    /\ inflight = {}
    /\ rfdevices = [g \in GPIOs |-> "absent"]
    /\ created = [g \in GPIOs |-> 0]
    /\ cleanups = [g \in GPIOs |-> 0]
    /\ accepted = <<>>
    /\ sendlog = <<>>
    /\ txlog = <<>>
    /\ lastTx = [gpio |-> 0, code |-> 0]
    /\ stopCause = "none"

(***************************************************************************)
(* RequestHandler.handle                                                   *)
(***************************************************************************)
\* The status handle returns: line 65 after a ValidationError, line 68
\* (jsonify({}), 200) otherwise.
ResponseStatusByWorker(valid) ==
    IF valid THEN (IF wpc = "stopped" THEN 503 ELSE 200) ELSE 400
ResponseStatus(valid) == IF valid THEN 200 ELSE 400

\* handle uses the request, the validator and the socket: it has no Sender
\* and reaches nothing of the worker process.
IntakeFrameAcquires ==
    /\ rfdevices' = [rfdevices EXCEPT ![MinGpio] = "enabled"]
    /\ created' = [created EXCEPT ![MinGpio] = 1]
    /\ UNCHANGED <<cleanups, worker>>
IntakeFrame == UNCHANGED <<pool, worker>>

\* Lines 61-65 and the entry into socket.send of line 67.
HandleRequest(t, b) ==
    /\ pc[t] = "idle"
    /\ nreq < MaxRequests
    /\ nreq' = nreq + 1
    /\ IF Validates(GetJson(b))
       THEN /\ pc' = [pc EXCEPT ![t] = "insend"]
            /\ cur' = [cur EXCEPT ![t] = b]
            /\ UNCHANGED status
            /\ raced' = IF \E u \in Threads : pc[u] = "insend"
                        THEN [u \in Threads |-> pc'[u] = "insend"]
                        ELSE [raced EXCEPT ![t] = FALSE]
       ELSE /\ status' = ResponseStatus(FALSE)
            /\ UNCHANGED <<pc, cur, raced>>
    /\ UNCHANGED <<channel, accepted>>
    /\ IntakeFrame

\* What a call of socket.send leaves on the channel.  The one DEALER socket
\* is shared by every request thread and is not safe for concurrent use: a
\* call that overlapped another one may also lose or damage its message.
SendOutcomes(r) == IF r THEN {"intact", "lost", "garbled"} ELSE {"intact"}

Command(b) == [gpio |-> b.json.gpioPin.v, code |-> b.json.code.v]

\* socket.send (line 67) blocks while the socket's queue is full.
CanSendNeverBlocks(q) == TRUE
CanSend(q) == Len(q) < HWM

\* The rest of line 67 and line 68: the message is handed over, 200 {} returned.
SendExit(t) ==
    /\ pc[t] = "insend"
    /\ CanSend(channel)
    /\ \E o \in SendOutcomes(raced[t]) :
         channel' = IF o = "lost" THEN channel
                    ELSE Append(channel,
                                [kind |-> IF o = "intact" THEN "cmd" ELSE "garbled",
                                 id |-> Len(accepted) + 1,
                                 body |-> cur[t]])
    /\ accepted' = Append(accepted, Command(cur[t]))
    /\ pc' = [pc EXCEPT ![t] = "idle"]
    /\ status' = ResponseStatus(TRUE)
    /\ raced' = [raced EXCEPT ![t] = FALSE]
    /\ cur' = [cur EXCEPT ![t] = NoRequest]
    /\ UNCHANGED nreq
    /\ IntakeFrame

(***************************************************************************)
(* Sender                                                                  *)
(***************************************************************************)
\* Sender.__del__: cleanup of every device in rfdevices.
Del == cleanups' = [g \in GPIOs |->
                      IF rfdevices'[g] # "absent" THEN cleanups[g] + 1
                      ELSE cleanups[g]]

RaiseAndRelease(exc) ==
    IF exc # "KeyboardInterrupt"
    THEN /\ wpc' = "recv"
         /\ UNCHANGED stopCause
         /\ Del
    ELSE /\ wpc' = "stopped"
         /\ stopCause' = exc
         /\ Del

\* An exception raised inside the worker loop: caught, and the loop goes on,
\* or it leaves dequeue_and_send, whose Sender is then finalized.
Raise(exc) ==
    IF Caught(exc)
    THEN /\ wpc' = "recv"
         /\ UNCHANGED <<stopCause, cleanups>>
    ELSE /\ wpc' = "stopped"
         /\ stopCause' = exc
         /\ Del

\* Line 23.
NeedsCreateAlways(g) == TRUE
NeedsCreate(g) == rfdevices[g] = "absent"

\* Sender.send(gpio, code) for the command id, up to the call of tx_code.
Send(id, g, c) ==
    /\ sendlog' = Append(sendlog, id)
    /\ \/ /\ NeedsCreate(g)
          /\ \/ \* rfdevice_factory raises: nothing is stored
                /\ UNCHANGED <<rfdevices, created, txlog, lastTx, inflight>>
                /\ Raise("FactoryError")
             \/ \* the device is stored, enable_tx raises
                /\ rfdevices' = [rfdevices EXCEPT ![g] = "uninit"]
                /\ created' = [created EXCEPT ![g] = @ + 1]
                /\ UNCHANGED <<txlog, lastTx, inflight>>
                /\ Raise("EnableError")
             \/ \* created and enabled: tx_code is called
                /\ rfdevices' = [rfdevices EXCEPT ![g] = "enabled"]
                /\ created' = [created EXCEPT ![g] = @ + 1]
                /\ txlog' = Append(txlog, id)
                /\ lastTx' = [gpio |-> g, code |-> c]
                /\ inflight' = inflight \cup {id}
                /\ wpc' = "tx"
                /\ UNCHANGED <<stopCause, cleanups>>
       \/ /\ ~NeedsCreate(g)
          /\ txlog' = Append(txlog, id)
          /\ lastTx' = [gpio |-> g, code |-> c]
          /\ inflight' = inflight \cup {id}
          /\ wpc' = "tx"
          /\ UNCHANGED <<rfdevices, created, stopCause, cleanups>>

(***************************************************************************)
(* dequeue_and_send                                                        *)
(***************************************************************************)
\* Lines 79-83: the ROUTER socket is bound and the Sender constructed.
Bind ==
    /\ wpc = "init"
    /\ wpc' = "recv"
    /\ UNCHANGED <<intake, channel, pool, inflight, sendlog, txlog, lastTx,
                   stopCause, idRead>>

\* The loop is sequential: socket.recv is called only between iterations.
CanRecvAnytime == wpc \in {"recv", "tx"}
CanRecv == wpc = "recv"

\* socket.recv returns one frame.  The ROUTER socket delivers the sender's
\* routing identity as a frame of its own ahead of each message; it is no
\* JSON text.
RecvIdentity ==
    /\ CanRecv
    /\ channel # <<>>
    /\ ~idRead
    /\ idRead' = TRUE
    /\ UNCHANGED <<intake, channel, rfdevices, created, inflight, sendlog, txlog,
                   lastTx>>
    /\ \E exc \in {"UnicodeDecodeError", "JSONDecodeError"} : Raise(exc)

\* Which entry socket.recv takes, and what it leaves.
RecvLast(q) == [m |-> q[Len(q)], rest |-> SubSeq(q, 1, Len(q) - 1)]
RecvPeek(q) == [m |-> Head(q), rest |-> q]
Recv(q) == [m |-> Head(q), rest |-> Tail(q)]

\* Lines 87-89 for a message frame.
RecvData ==
    /\ CanRecv
    /\ channel # <<>>
    /\ idRead
    /\ idRead' = FALSE
    /\ LET r == Recv(channel)
           c == Parse(r.m)
       IN /\ channel' = r.rest
          /\ IF c.err # "none"
             THEN /\ UNCHANGED <<rfdevices, created, inflight, sendlog, txlog, lastTx>>
                  /\ Raise(c.err)
             ELSE Send(r.m.id, c.gpio, c.code)
    /\ UNCHANGED intake

TxEndEvicts ==
    /\ wpc = "tx"
    /\ inflight' = {}
    /\ UNCHANGED <<intake, channel, idRead, created, sendlog, txlog, lastTx>>
    /\ \/ /\ wpc' = "recv"
          /\ UNCHANGED <<rfdevices, stopCause, cleanups>>
       \/ /\ rfdevices' = [rfdevices EXCEPT ![lastTx.gpio] = "absent"]
          /\ Raise("TxError")

\* tx_code returns or raises (lines 28-29, 90, 93-94).
TxEnd ==
    /\ wpc = "tx"
    /\ inflight' = {}
    /\ UNCHANGED <<intake, channel, idRead, rfdevices, created, sendlog, txlog,
                   lastTx>>
    /\ \/ /\ wpc' = "recv"
          /\ UNCHANGED <<stopCause, cleanups>>
       \/ Raise("TxError")

\* SIGINT: KeyboardInterrupt is raised in the worker, in recv or in tx_code.
Interrupt ==
    /\ wpc \in {"recv", "tx"}
    /\ inflight' = {}
    /\ UNCHANGED <<intake, channel, idRead, rfdevices, created, sendlog, txlog,
                   lastTx>>
    /\ Raise("KeyboardInterrupt")

\* SIGTERM or SIGKILL: the worker process ends at once, no finalizer runs.
Terminate ==
    /\ wpc \in {"init", "recv", "tx"}
    /\ wpc' = "stopped"
    /\ stopCause' = "SIGTERM"
    /\ inflight' = {}
    /\ UNCHANGED <<intake, channel, idRead, pool, sendlog, txlog, lastTx>>

Next ==
    \/ \E t \in Threads, b \in Bodies : HandleRequest(t, b)
    \/ \E t \in Threads : SendExit(t)
    \/ Bind
    \/ RecvIdentity
    \/ RecvData
    \/ TxEnd
    \/ Interrupt
    \/ Terminate

Spec == Init /\ [][Next]_vars

\* The runs in which the requests arrive one after the other: a request is
\* received only when no thread is inside handle.
SerialNext ==
    \/ \E t \in Threads, b \in Bodies :
          /\ \A u \in Threads : pc[u] = "idle"
          /\ HandleRequest(t, b)
    \/ \E t \in Threads : SendExit(t)
    \/ Bind
    \/ RecvIdentity
    \/ RecvData
    \/ TxEnd
    \/ Interrupt
    \/ Terminate

SerialSpec == Init /\ [][SerialNext]_vars

(***************************************************************************)
(* Properties                                                              *)
(***************************************************************************)
Range(q) == {q[i] : i \in 1..Len(q)}
GpioOf(id) == accepted[id].gpio
OnChannel == {channel[i].id : i \in 1..Len(channel)}

\* C1: the tx_code calls for one gpio happen in the order in which the
\* commands were accepted (answered 200), whatever else is interleaved.
C1_TransmitOrder ==
    \A i, j \in 1..Len(txlog) :
        (i < j /\ GpioOf(txlog[i]) = GpioOf(txlog[j])) => txlog[i] < txlog[j]

\* Two commands for pin 2, with different codes, were transmitted around one
\* for pin 27.
C1_Witness ==
    /\ Len(txlog) = 3
    /\ GpioOf(txlog[1]) = 2
    /\ GpioOf(txlog[2]) = 27
    /\ GpioOf(txlog[3]) = 2
    /\ accepted[txlog[1]].code # accepted[txlog[3]].code

\* C2: at most one tx_code call is running at any time.
C2_OneInFlight == Cardinality(inflight) <= 1

\* A transmission is running while every request thread is inside handle.
C2_Witness ==
    /\ Cardinality(inflight) = 1
    /\ \A t \in Threads : pc[t] = "insend"

\* A body that fails the schema, in the words of the claim.
FailsSchema(s) ==
    \/ s.kind # "object"
    \/ s.gpioPin.t = "absent"
    \/ s.code.t = "absent"
    \/ s.gpioPin.t # "integer"
    \/ s.code.t # "integer"
    \/ s.gpioPin.v < 2
    \/ s.gpioPin.v > 27
    \/ s.code.v < 0

\* The request bodies of the model that fail the schema.
FailingBodies == {x \in Bodies : FailsSchema(x.json)}

\* C3: a request whose body fails the schema is answered 400 in a step that
\* leaves the channel as it was, and no such body is ever on the channel.
C3_InvalidRejected ==
    [][/\ nreq' # nreq =>
            \A b \in FailingBodies :
                \A t \in {u \in Threads : pc[u] = "idle"} :
                    HandleRequest(t, b)
                        => (status' = 400 /\ pc'[t] = "idle" /\ channel' = channel)
       /\ channel' # channel =>
            \A i \in 1..Len(channel') : ~FailsSchema(channel'[i].body.json)]_vars

\* A request was rejected while a message was on the channel.
C3_Witness ==
    /\ status = 400
    /\ \A t \in Threads : pc[t] = "idle"
    /\ channel # <<>>
    /\ Len(accepted) = Len(channel)
    /\ nreq > Len(accepted)

LoopErrors == {"UnicodeDecodeError", "JSONDecodeError", "TypeError", "KeyError",
               "FactoryError", "EnableError", "TxError"}

\* C4: no error of decoding, acquisition or transmission ends the worker
\* loop: a step in which one is raised leaves the worker waiting on the
\* channel, and the worker only ever stops by an interrupt or a signal.
C4_ErrorsKeepLoop ==
    /\ stopCause \notin LoopErrors
    /\ wpc = "stopped" => stopCause \in {"KeyboardInterrupt", "SIGTERM"}

\* A command was dropped before Sender.send, a later one failed in
\* acquisition, and a still later one was transmitted.
C4_Witness ==
    /\ wpc = "recv"
    /\ \E i \in 1..Len(accepted) :
         /\ i \notin OnChannel
         /\ i \notin Range(sendlog)
         /\ \E j \in Range(sendlog) :
              /\ j > i
              /\ j \notin Range(txlog)
              /\ \E k \in Range(txlog) : k > j

\* C5: a transmission is always followed by a settle wait; the worker does
\* not go from tx_code straight back to the channel.
C5_SettleAfterTransmit ==
    [][(wpc = "tx" /\ wpc' # "tx") => wpc' \in {"settle", "stopped"}]_vars

\* C6: the hand-off never blocks: a handler inside socket.send can always
\* complete it and return 200.
C6_SendNeverBlocks ==
    \A t \in Threads : pc[t] = "insend" => ENABLED SendExit(t)

\* C7: while the worker runs, every command answered 200 is on the channel
\* or was handed to Sender.send: none is dropped on the way.
C7_AcceptedIsDelivered ==
    wpc # "stopped" =>
        \A id \in 1..Len(accepted) : id \in OnChannel \/ id \in Range(sendlog)

NoDuplicates(q) == \A i, j \in 1..Len(q) : i # j => q[i] # q[j]

\* C8: a command is consumed at most once: Sender.send and tx_code are
\* called at most once per accepted command, never for one still on the
\* channel, and never again after a failure.
C8_AtMostOnce ==
    /\ NoDuplicates(sendlog)
    /\ NoDuplicates(txlog)
    /\ Range(txlog) \subseteq Range(sendlog)
    /\ Range(sendlog) \subseteq 1..Len(accepted)
    /\ Range(sendlog) \cap OnChannel = {}
    /\ Len(txlog) <= Len(accepted)

\* A command whose acquisition failed and one whose transmission ended were
\* both left behind: the worker is at the channel again, which is empty.
C8_Witness ==
    /\ wpc = "recv"
    /\ channel = <<>>
    /\ Len(sendlog) = 2
    /\ Len(txlog) = 1
    /\ Len(accepted) = 3

\* C9: at most one successful rfdevice_factory call per gpio, and a stored
\* device is the one every later command uses.
C9_OneHandlePerGpio ==
    \A g \in GPIOs :
        /\ created[g] <= 1
        /\ created[g] = 1 <=> rfdevices[g] # "absent"

\* Two commands for pin 2 were transmitted on the one device created for it.
C9_Witness ==
    /\ created[2] = 1
    /\ Cardinality({i \in 1..Len(txlog) : GpioOf(txlog[i]) = 2}) >= 2

\* C10: once the worker has stopped, cleanup was called exactly once on
\* every device ever created.
C10_CleanupOnEveryExit ==
    wpc = "stopped" => \A g \in GPIOs : cleanups[g] = created[g]

\* C11: tx_code is only ever called on a device whose enable_tx has
\* completed.
C11_TransmitOnlyEnabled ==
    wpc = "tx" => rfdevices[lastTx.gpio] = "enabled"

\* The status the claim expects for a body.
ExpectedStatus(b) == IF FailsSchema(b.json) THEN 400 ELSE 200

\* C12: whenever handle returns, its status is a function of the request
\* body alone: 400 for a body that fails the schema, 200 for any other,
\* whatever the worker and the channel are doing.
C12_ResponseByBodyOnly ==
    [][/\ (nreq' # nreq /\ pc' = pc) =>
            \A t \in Threads, b \in Bodies :
                HandleRequest(t, b) => status' = ExpectedStatus(b)
       /\ \A t \in Threads :
            (pc[t] = "insend" /\ pc'[t] = "idle")
                => status' = ExpectedStatus(cur[t])]_vars

\* 200 was returned twice while the worker had not even bound its socket.
C12_Witness ==
    /\ status = 200
    /\ wpc = "init"
    /\ Len(accepted) >= 2

\* C13: a step of the front end (a request received, rejected or handed to
\* the channel) changes nothing of the Sender and calls none of its
\* operations; only steps of the worker do.
C13_PoolOwnedByWorker ==
    [][(nreq' # nreq \/ accepted' # accepted \/ pc' # pc \/ status' # status)
         => UNCHANGED <<rfdevices, created, cleanups, sendlog, txlog, inflight>>]_vars

\* A request is inside handle while a device exists and transmits.
C13_Witness ==
    /\ wpc = "tx"
    /\ \E g \in GPIOs : rfdevices[g] = "enabled"
    /\ \E t \in Threads : pc[t] = "insend"
    /\ status = 400

\* C14: every tx_code call made has a gpio in [2, 27] and a code >= 0.
C14_TransmitArgsInRange ==
    txlog # <<>> =>
        /\ lastTx.gpio >= 2
        /\ lastTx.gpio <= 27
        /\ lastTx.code >= 0
        /\ lastTx = accepted[txlog[Len(txlog)]]

\* tx_code runs with the arguments of the request {"gpioPin": 27, "code": 0}.
C14_Witness ==
    /\ wpc = "tx"
    /\ lastTx = [gpio |-> 27, code |-> 0]

\* C15: while the worker has not stopped no cleanup is called and no device
\* leaves rfdevices.
C15_NoReleaseWhileRunning ==
    [][wpc' # "stopped" =>
         \A g \in GPIOs :
             /\ cleanups'[g] = 0
             /\ rfdevices[g] # "absent" => rfdevices'[g] # "absent"]_vars

\* Both devices exist, an acquisition failed, two transmissions were made,
\* and the worker is at the channel again.
C15_Witness ==
    /\ wpc = "recv"
    /\ \A g \in GPIOs : rfdevices[g] # "absent" /\ cleanups[g] = 0
    /\ Len(sendlog) = 3
    /\ Len(txlog) = 2

\* C16: a tx_code call on a device already in rfdevices, from its start to
\* its return or its exception, leaves rfdevices as it was and calls neither
\* the factory nor cleanup.
C16_TransmitKeepsPool ==
    [][/\ (Len(txlog') > Len(txlog) /\ rfdevices[lastTx'.gpio] # "absent")
            => UNCHANGED <<rfdevices, created, cleanups>>
       /\ (wpc = "tx" /\ wpc' = "recv")
            => UNCHANGED <<rfdevices, created, cleanups>>]_vars

\* Two transmissions were made on a stored device that was never enabled.
C16_Witness ==
    /\ wpc = "recv"
    /\ rfdevices[2] = "uninit"
    /\ created[2] = 1
    /\ Len(txlog) = 2

\* C17: a frame the worker cannot decode changes neither txlog nor the
\* Sender, and every message the front end sent and the worker took off the
\* channel led to exactly one call of Sender.send.
C17_OneAttemptPerMessage ==
    [][/\ (idRead' # idRead /\ sendlog' = sendlog)
            => UNCHANGED <<txlog, rfdevices, created, cleanups>>
       /\ \A id \in 1..Len(accepted') :
            id \notin OnChannel'
                => Cardinality({k \in 1..Len(sendlog') : sendlog'[k] = id}) = 1]_vars

\* C18: at most one thread is inside socket.send at any time.
C18_OneThreadInSend ==
    Cardinality({t \in Threads : pc[t] = "insend"}) <= 1

====
